---- MODULE Spec2Model ----
(***************************************************************************)
(* Dormant-customer engine (backend/src/data_processor.py) and its result  *)
(* types (backend/src/models.py).                                           *)
(*                                                                         *)
(* Conventions of the model:                                               *)
(*  - a calendar date is the number of days since 2024-01-01 (day 0);      *)
(*    'Posted date' is compared with the config dates by calendar day;     *)
(*  - a missing string cell (None / NaN) is the empty string "";           *)
(*  - floats and Decimals are exact rationals [n, d] with d > 0; the       *)
(*    IEEE specials are d = 0 with n = 0 (NaN), n = 1 (+inf), n = -1       *)
(*    (-inf);                                                              *)
(*  - columns that no decision of the pipeline reads (Invoice number,      *)
(*    Invoice date, Item, Qty, Supplier, SKU) are not carried, and neither *)
(*    are the values derived from them alone (preferred_products, the      *)
(*    recommendation strings).                                             *)
(***************************************************************************)
EXTENDS Integers, Sequences, FiniteSets, TLC

\* ------------------------------------------------------------------ bounds
MaxRows == 3         \* data rows in a sales file
MaxRuns == 2         \* process_files calls on the same inputs (SpecRerun)
MaxRerunRows == 1    \* data rows in a sales file of SpecRerun
MaxClock == 1        \* readings of the wall clock
MaxWideRows == 1     \* data rows in a sales file of SpecWide
MaxOrders == 3       \* rows of a frame handed to AdvancedAnalytics directly
MaxLongOrders == 6   \* rows of such a frame in SpecAnalyticsLong
MaxJobs == 2         \* jobs uploaded to the server (SpecJobs)

\* --------------------------------------------------------- generic helpers
Abs(x) == IF x < 0 THEN -x ELSE x

RECURSIVE GCD(_, _)
GCD(a, b) == IF b = 0 THEN Abs(a) ELSE GCD(b, a % b)

RECURSIVE SumSeq(_)
SumSeq(s) == IF s = <<>> THEN 0 ELSE Head(s) + SumSeq(Tail(s))

Range(s) == {s[i] : i \in DOMAIN s}

\* ---------------------------------------------------------------- floats
NaN == [n |-> 0, d |-> 0]
PosInf == [n |-> 1, d |-> 0]
NegInf == [n |-> -1, d |-> 0]

IsNaN(a) == a.d = 0 /\ a.n = 0

Rat(num, den) ==
    IF den = 0 THEN [n |-> IF num > 0 THEN 1 ELSE IF num < 0 THEN -1 ELSE 0, d |-> 0]
    ELSE LET g == GCD(num, den)
             s == IF den < 0 THEN -1 ELSE 1
         IN  [n |-> s * (num \div g), d |-> s * (den \div g)]

RInt(i) == [n |-> i, d |-> 1]

RAdd(a, b) ==
    IF IsNaN(a) \/ IsNaN(b) THEN NaN
    ELSE IF a.d = 0 /\ b.d = 0 THEN (IF a.n = b.n THEN a ELSE NaN)
    ELSE IF a.d = 0 THEN a
    ELSE IF b.d = 0 THEN b
    ELSE LET g == GCD(a.d, b.d)
         IN  Rat(a.n * (b.d \div g) + b.n * (a.d \div g), (a.d \div g) * b.d)

RNeg(a) == [n |-> -a.n, d |-> a.d]

RSub(a, b) == RAdd(a, RNeg(b))

RMul(a, b) ==
    IF IsNaN(a) \/ IsNaN(b) THEN NaN
    ELSE IF a.d = 0 \/ b.d = 0
         THEN (IF a.n = 0 \/ b.n = 0 THEN NaN
               ELSE IF (a.n > 0) = (b.n > 0) THEN PosInf ELSE NegInf)
    ELSE LET g1 == GCD(a.n, b.d)
             g2 == GCD(b.n, a.d)
             h1 == IF g1 = 0 THEN 1 ELSE g1
             h2 == IF g2 = 0 THEN 1 ELSE g2
         IN  Rat((a.n \div h1) * (b.n \div h2), (a.d \div h2) * (b.d \div h1))

\* float division of numpy: x/0 is +-inf, 0/0 is NaN, no exception
RDiv(a, b) ==
    IF IsNaN(a) \/ IsNaN(b) THEN NaN
    ELSE IF b.d = 0 THEN (IF a.d = 0 THEN NaN ELSE RInt(0))
    ELSE IF b.n = 0 THEN (IF a.n = 0 THEN NaN ELSE IF a.n > 0 THEN PosInf ELSE NegInf)
    ELSE IF a.d = 0 THEN (IF (a.n > 0) = (b.n > 0) THEN PosInf ELSE NegInf)
    ELSE RMul(a, Rat(b.d, b.n))

\* a < b as IEEE compares: FALSE as soon as one side is NaN
RLt(a, b) ==
    IF IsNaN(a) \/ IsNaN(b) THEN FALSE
    ELSE IF a.d = 0 /\ b.d = 0 THEN a.n < b.n
    ELSE IF a.d = 0 THEN a.n < 0
    ELSE IF b.d = 0 THEN b.n > 0
    ELSE a.n * b.d < b.n * a.d

RLe(a, b) == ~IsNaN(a) /\ ~IsNaN(b) /\ ~RLt(b, a)

\* Python's builtin min(a, b) / max(a, b): the first argument is kept
\* unless the second compares strictly smaller / greater
PyMin(a, b) == IF RLt(b, a) THEN b ELSE a
PyMax(a, b) == IF RLt(a, b) THEN b ELSE a

InUnit(a) == RLe(RInt(0), a) /\ RLe(a, RInt(1))

RECURSIVE RSumSeq(_)
RSumSeq(s) == IF s = <<>> THEN RInt(0) ELSE RAdd(Head(s), RSumSeq(Tail(s)))

\* numpy.mean of a non-empty list of floats
NpMean(s) == RDiv(RSumSeq(s), RInt(Len(s)))

\* -------------------------------------------------------------- calendar
MonthLengths == <<31, 29, 31, 30, 31, 30, 31, 31, 30, 31, 30, 31,
                  31, 28, 31, 30, 31, 30, 31, 31, 30, 31, 30, 31>>

RECURSIVE PeriodFrom(_, _)
\* index (1..24) of the calendar month, counted from January 2024, that
\* holds day number day; m is the month under test, day is relative to it
PeriodFrom(day, m) ==
    IF m >= Len(MonthLengths) \/ day < MonthLengths[m] THEN m
    ELSE PeriodFrom(day - MonthLengths[m], m + 1)

\* Series.dt.to_period('M')
ToPeriodM(day) == PeriodFrom(day, 1)

\* Series.dt.month
MonthOf(day) == ((ToPeriodM(day) - 1) % 12) + 1

\* ---------------------------------------------------------------- inputs
\* models.py, AnalyticsConfig defaults
DefaultDormantDays == 45
DefaultPeriodMonths == 6
DefaultHighValue == 1000
DefaultQuickWin == 500
DefaultMinOrders == 3

\* pandas.read_csv(..., skiprows=2)
SkipRows == 2

\* 2025-06-01, the as-of date of the test suite
AsOf == 366 + 151

DefaultConfig ==
    [today_date |-> AsOf,
     dormant_days_threshold |-> DefaultDormantDays,
     analysis_period_months |-> DefaultPeriodMonths,
     high_value_threshold |-> DefaultHighValue,
     quick_win_threshold |-> DefaultQuickWin,
     min_orders_for_pattern |-> DefaultMinOrders]

\* upload_files passes dormant_threshold through unvalidated: any int
Configs ==
    {DefaultConfig, [DefaultConfig EXCEPT !.dormant_days_threshold = -10]}

TextDate(day) == [k |-> "str", v |-> day]
BadDate == [k |-> "str", v |-> -1]
TextPrice(p) == [k |-> "str", v |-> p]
BadPrice == [k |-> "str", v |-> -1]

RawRow(c, s, d, p) ==
    [Customer |-> c, Salesperson |-> s, PostedDate |-> d, NetPrice |-> p]

\* rows a sales report can hold; with the default config the analysis
\* window starts on day 337 (2024-12-03) and the cutoff is day 472
\* (2025-04-17)
RowPool ==
    {RawRow("A", "Old Rep", TextDate(400), TextPrice(500)),
     RawRow("A", "Old Rep", TextDate(471), TextPrice(1000)),
     RawRow("A", "Angela", TextDate(472), TextPrice(500)),
     RawRow("A", "Old Rep", TextDate(300), TextPrice(500)),
     RawRow("B", "Angela", TextDate(337), TextPrice(500)),
     RawRow("B", "Angela", TextDate(400), TextPrice(0)),
     RawRow("B", "", TextDate(520), TextPrice(500)),
     RawRow("", "Old Rep", TextDate(400), TextPrice(500)),
     RawRow("A", "Old Rep", BadDate, TextPrice(500)),
     RawRow("B", "Angela", TextDate(471), BadPrice)}

\* customer names in the order pandas sorts group keys
CustomerOrder == <<"A", "B">>

SeqsUpTo(S, n) == UNION {[1..k -> S] : k \in 0..n}

\* a sales file: title lines, then the header line, then the data rows;
\* header is "header" when the header line names every column the engine
\* reads
SalesFiles(n) ==
    {[title_lines |-> t, header |-> "header", rows |-> r] :
        t \in {0, SkipRows}, r \in SeqsUpTo(RowPool, n)}

\* sales files whose header line has no 'Customer' column: their records
\* have no customer cell
HeadlessRows == {row \in RowPool : row.Customer = ""}

SalesFilesNoCustomer(n) ==
    {[title_lines |-> SkipRows, header |-> "no_customer", rows |-> r] :
        r \in SeqsUpTo(HeadlessRows, n)}

PlanningPool ==
    {[columns |-> <<"Customer", "Assigned Rep">>,
      rows |-> << <<"A", "Mike Allen">> >>],
     [columns |-> <<"Customer", "Assigned Rep">>,
      rows |-> << <<"B", "Mike Allen">>, <<"B", "Angela">>, <<"A", "">> >>],
     [columns |-> <<"Customer", "Territory">>,
      rows |-> << <<"A", "North">> >>]}

\* planning tables with other column names: one whose only rep column also
\* contains "customer", one in upper case, one without a customer column
PlanningPoolWide ==
    PlanningPool \cup
    {[columns |-> <<"Customer", "Customer Rep">>,
      rows |-> << <<"A", "Mike Allen">> >>],
     [columns |-> <<"CUSTOMER NAME", "REP">>,
      rows |-> << <<"A", "Mike Allen">> >>],
     [columns |-> <<"Account", "Assigned Rep">>,
      rows |-> << <<"A", "Mike Allen">> >>]}

\* days and prices of the records handed to AdvancedAnalytics directly:
\* 2025-02-04, 2025-02-24, 2025-03-16 and 2025-04-16
OrderDays == {400, 420, 440, 471}
OrderPrices == {0, DefaultQuickWin, DefaultHighValue}

\* records of one customer as _identify_dormant_customers hands them over:
\* validated, mapped and inside the window
OrderPool ==
    {[Customer |-> "A", Salesperson |-> "Old Rep", Salesperson_Original |-> "Old Rep",
      PostedDate |-> [k |-> "ts", v |-> d], NetPrice |-> [k |-> "num", v |-> p]] :
        d \in OrderDays, p \in OrderPrices}

\* records for the longer frames: 2024-12-06, 2025-02-04 and 2025-03-16
\* at 500, and 2025-02-04 at 0
LongOrderPool ==
    {row \in OrderPool :
        \/ row.PostedDate.v = 400 /\ row.NetPrice.v = 0
        \/ row.PostedDate.v \in {400, 440} /\ row.NetPrice.v = DefaultQuickWin}
    \cup
    {[Customer |-> "A", Salesperson |-> "Old Rep", Salesperson_Original |-> "Old Rep",
      PostedDate |-> [k |-> "ts", v |-> 340],
      NetPrice |-> [k |-> "num", v |-> DefaultQuickWin]]}

\* DormantCustomerProcessor(config) takes any pair of thresholds
ConfigsWide ==
    {[DefaultConfig EXCEPT !.high_value_threshold = t[1], !.quick_win_threshold = t[2]] :
        t \in {<<DefaultHighValue, DefaultQuickWin>>,
               <<DefaultQuickWin, DefaultHighValue>>,
               <<DefaultQuickWin, DefaultQuickWin>>}}

\* ----------------------------------------------------------------- state
VARIABLES
    sales_file,             \* content of the file at sales_file_path
    planning_file,          \* content of the file at planning_file_path
    config,                 \* self.config
    run_limit,              \* number of process_files calls of the behaviour
    pydantic,               \* release of the pydantic package installed
    clock,                  \* last reading of datetime.now()
    pc,                     \* position inside process_files
    sales_df,               \* frame returned by _load_sales_data
    sales_df_clean,
    quality_report,
    sales_df_mapped,
    dormant_customers,
    salesperson_summaries,
    insights,
    accuracy_score,
    outcomes,               \* what each finished call returned or raised
    analytics_data,         \* frame handed to a method of AdvancedAnalytics
    analytics,              \* the method called on it and what it returned
    processing_status,      \* main.py line 39: job id -> status entry
    processing_results,     \* main.py line 38: job id -> ProcessingResult
    temp_dirs,              \* directories made by tempfile.mkdtemp and their files
    tasks,                  \* job id -> arguments and position of its background task
    requests                \* job id -> what the upload request carried

vars == <<sales_file, planning_file, config, run_limit, pydantic, clock, pc, sales_df,
          sales_df_clean, quality_report, sales_df_mapped, dormant_customers,
          salesperson_summaries, insights, accuracy_score, outcomes,
          analytics_data, analytics, processing_status, processing_results,
          temp_dirs, tasks, requests>>

\* what no step of process_files assigns
inputs == <<sales_file, planning_file, config, run_limit, pydantic,
            analytics_data, analytics, processing_status, processing_results,
            temp_dirs, tasks, requests>>

PydanticReleases == {"v1", "v2"}

NoFrame == [columns |-> "none", rows |-> <<>>]
NoReport == [total_records |-> -1]
NoInsights == <<>>

\* no direct call of a method of AdvancedAnalytics
NoCall == [call |-> "none"]

Direct0 ==
    /\ analytics_data = <<>>
    /\ analytics = NoCall

\* main.py, lines 38-39: the job store of a server that has served no request
JobStore0 ==
    /\ processing_status = <<>>
    /\ processing_results = <<>>
    /\ temp_dirs = <<>>
    /\ tasks = <<>>
    /\ requests = <<>>

Locals0 ==
    /\ sales_df = NoFrame
    /\ sales_df_clean = <<>>
    /\ quality_report = NoReport
    /\ sales_df_mapped = <<>>
    /\ dormant_customers = <<>>
    /\ salesperson_summaries = <<>>
    /\ insights = NoInsights
    /\ accuracy_score = RInt(0)

InitWith(files, limit) ==
    /\ sales_file \in files
    /\ planning_file \in PlanningPool
    /\ config \in Configs
    /\ run_limit = limit
    /\ pydantic \in PydanticReleases
    /\ clock = 0
    /\ pc = "idle"
    /\ outcomes = <<>>
    /\ Locals0
    /\ Direct0
    /\ JobStore0

Init == InitWith(SalesFiles(MaxRows), 1)

InitRerun == InitWith(SalesFiles(MaxRerunRows), MaxRuns)

\* one run over the wider choice of planning tables, thresholds and headers
InitWide ==
    /\ sales_file \in SalesFiles(MaxWideRows) \cup SalesFilesNoCustomer(MaxWideRows)
    /\ planning_file \in PlanningPoolWide
    /\ config \in ConfigsWide
    /\ run_limit = 1
    /\ pydantic \in PydanticReleases
    /\ clock = 0
    /\ pc = "idle"
    /\ outcomes = <<>>
    /\ Locals0
    /\ Direct0
    /\ JobStore0

Raised == [ok |-> FALSE]

\* an exception leaves process_files through the except/raise of lines 216-218
Raise ==
    /\ pc' = "idle"
    /\ outcomes' = Append(outcomes, Raised)

\* ------------------------------------------------------- _load_sales_data
\* lines of the file: 0 stands for a title line, 1 for the header line,
\* 1 + i for data row i
FileLines(file) ==
    [i \in 1..(file.title_lines + 1 + Len(file.rows)) |->
        IF i <= file.title_lines THEN 0 ELSE i - file.title_lines]

\* mutant of ReadCsv: every header line counts as naming all the columns
ReadCsv_any_header(file, skip) ==
    LET lines == FileLines(file)
        left == IF skip >= Len(lines) THEN <<>> ELSE SubSeq(lines, skip + 1, Len(lines))
    IN  IF left = <<>> THEN [columns |-> "EmptyDataError", rows |-> <<>>]
        ELSE [columns |-> IF left[1] = 1 THEN "header"
                          ELSE IF left[1] = 0 THEN "title" ELSE "record",
              rows |-> [j \in 1..(Len(left) - 1) |->
                           IF left[j + 1] >= 2 THEN file.rows[left[j + 1] - 1]
                           ELSE RawRow("", "", BadDate, BadPrice)]]

\* read_csv(skiprows=2): the first line that is left names the columns, the
\* lines after it are the records
ReadCsv(file, skip) ==
    LET lines == FileLines(file)
        left == IF skip >= Len(lines) THEN <<>> ELSE SubSeq(lines, skip + 1, Len(lines))
    IN  IF left = <<>> THEN [columns |-> "EmptyDataError", rows |-> <<>>]
        ELSE [columns |-> IF left[1] = 1 THEN file.header
                          ELSE IF left[1] = 0 THEN "title" ELSE "record",
              rows |-> [j \in 1..(Len(left) - 1) |->
                           IF left[j + 1] >= 2 THEN file.rows[left[j + 1] - 1]
                           ELSE RawRow("", "", BadDate, BadPrice)]]

load_sales_data(file) == ReadCsv(file, SkipRows)

\* process_files, lines 175-178
LoadFiles ==
    /\ pc = "idle"
    /\ Len(outcomes) < run_limit
    /\ LET df == load_sales_data(sales_file)
       IN  IF df.columns = "EmptyDataError"
           THEN /\ Raise
                /\ sales_df' = NoFrame
           ELSE /\ pc' = "loaded"
                /\ sales_df' = df
                /\ UNCHANGED outcomes
    /\ sales_df_clean' = <<>>
    /\ quality_report' = NoReport
    /\ sales_df_mapped' = <<>>
    /\ dormant_customers' = <<>>
    /\ salesperson_summaries' = <<>>
    /\ insights' = NoInsights
    /\ accuracy_score' = RInt(0)
    /\ UNCHANGED <<inputs, clock>>

\* ---------------------------------------------------- validate_sales_data
\* pd.to_datetime(..., errors='coerce')
to_datetime(cell) ==
    IF cell.k = "ts" THEN cell
    ELSE IF cell.k = "str" /\ cell.v >= 0 THEN [k |-> "ts", v |-> cell.v]
    ELSE [k |-> "NaT", v |-> -1]

\* pd.to_numeric(..., errors='coerce')
to_numeric(cell) ==
    IF cell.k = "num" THEN cell
    ELSE IF cell.k = "str" /\ cell.v >= 0 THEN [k |-> "num", v |-> cell.v]
    ELSE [k |-> "NaN", v |-> 0]

fillna0(cell) == IF cell.k = "NaN" THEN [k |-> "num", v |-> 0] ELSE cell

CountIf(s, Test(_)) == Len(SelectSeq(s, Test))

IsNaT(row) == row.PostedDate.k = "NaT"
PriceIsNa(row) == row.NetPrice.k = "NaN"

\* DataFrame.duplicated().sum(): rows equal to an earlier row
Duplicated(rows) ==
    Cardinality({i \in DOMAIN rows : \E j \in 1..(i - 1) : rows[j] = rows[i]})

\* mutant of validate_sales_data: line 45 drops on the posted date alone
validate_sales_data_dates_only(rows) ==
    LET initial_count == Len(rows)
        dated == [i \in DOMAIN rows |->
                     [rows[i] EXCEPT !.PostedDate = to_datetime(rows[i].PostedDate)]]
        invalid_dates == CountIf(dated, IsNaT)
        coerced == [i \in DOMAIN rows |->
                       [dated[i] EXCEPT !.NetPrice = to_numeric(dated[i].NetPrice)]]
        invalid_prices == CountIf(coerced, PriceIsNa)
        df == [i \in DOMAIN rows |->
                  [coerced[i] EXCEPT !.NetPrice = fillna0(coerced[i].NetPrice)]]
        Kept(row) == row.PostedDate.k = "ts"
        df_clean == SelectSeq(df, Kept)
        issues ==
            (IF invalid_dates > 0
             THEN <<[what |-> "invalid dates in Posted date", count |-> invalid_dates]>>
             ELSE <<>>)
            \o (IF invalid_prices > 0
                THEN <<[what |-> "invalid prices", count |-> invalid_prices]>>
                ELSE <<>>)
    IN  [df |-> df,
         df_clean |-> df_clean,
         report |->
            [total_records |-> initial_count,
             valid_records |-> Len(df_clean),
             duplicate_records |-> Duplicated(df_clean),
             missing_customer_mappings |-> 0,
             invalid_dates |-> CountIf(df, IsNaT),
             invalid_prices |-> CountIf(df, PriceIsNa),
             data_completeness_score |->
                IF initial_count > 0 THEN Rat(Len(df_clean), initial_count) ELSE RInt(0),
             recommendations |-> issues]]

\* the frame after lines 27-42 (df is rewritten in place), the rows kept by
\* line 45 and the report of lines 51-60
validate_sales_data(rows) ==
    LET initial_count == Len(rows)
        dated == [i \in DOMAIN rows |->
                     [rows[i] EXCEPT !.PostedDate = to_datetime(rows[i].PostedDate)]]
        invalid_dates == CountIf(dated, IsNaT)
        coerced == [i \in DOMAIN rows |->
                       [dated[i] EXCEPT !.NetPrice = to_numeric(dated[i].NetPrice)]]
        invalid_prices == CountIf(coerced, PriceIsNa)
        df == [i \in DOMAIN rows |->
                  [coerced[i] EXCEPT !.NetPrice = fillna0(coerced[i].NetPrice)]]
        Kept(row) == row.PostedDate.k = "ts" /\ row.Customer # ""
        df_clean == SelectSeq(df, Kept)
        issues ==
            (IF invalid_dates > 0
             THEN <<[what |-> "invalid dates in Posted date", count |-> invalid_dates]>>
             ELSE <<>>)
            \o (IF invalid_prices > 0
                THEN <<[what |-> "invalid prices", count |-> invalid_prices]>>
                ELSE <<>>)
    IN  [df |-> df,
         df_clean |-> df_clean,
         report |->
            [total_records |-> initial_count,
             valid_records |-> Len(df_clean),
             duplicate_records |-> Duplicated(df_clean),
             missing_customer_mappings |-> 0,
             invalid_dates |-> CountIf(df, IsNaT),
             invalid_prices |-> CountIf(df, PriceIsNa),
             data_completeness_score |->
                IF initial_count > 0 THEN Rat(Len(df_clean), initial_count) ELSE RInt(0),
             recommendations |-> issues]]

\* process_files, line 181; a frame whose columns are not the header's has
\* no 'Posted date' / 'Customer' column and dropna raises KeyError
Validate ==
    /\ pc = "loaded"
    /\ IF sales_df.columns # "header"
       THEN /\ Raise
            /\ UNCHANGED <<sales_df, sales_df_clean, quality_report>>
       ELSE LET v == validate_sales_data(sales_df.rows)
            IN  /\ sales_df' = [sales_df EXCEPT !.rows = v.df]
                /\ sales_df_clean' = v.df_clean
                /\ quality_report' = v.report
                /\ pc' = "validated"
                /\ UNCHANGED outcomes
    /\ UNCHANGED <<inputs, clock, sales_df_mapped, dormant_customers,
                   salesperson_summaries, insights, accuracy_score>>

\* ----------------------------------------------- _apply_customer_mappings
\* 'customer' in col.lower(), for the column names of the planning pool
NamesCustomer(col) == col \in {"Customer", "CUSTOMER NAME", "Customer Rep"}

\* 'rep' / 'salesperson' / 'assigned' in col.lower()
NamesRep(col) == col \in {"Assigned Rep", "Salesperson", "Customer Rep", "REP"}

\* the loop of lines 252-256 keeps the last column that matches: index of
\* the last element of s with Test, 0 when there is none
LastIdx(s, Test(_)) ==
    LET hits == {i \in DOMAIN s : Test(s[i])}
    IN  IF hits = {} THEN 0 ELSE CHOOSE i \in hits : \A j \in hits : j <= i

customer_col(planning_df) ==
    LastIdx(planning_df.columns, NamesCustomer)

rep_col(planning_df) ==
    LET IsRep(col) == ~NamesCustomer(col) /\ NamesRep(col)
    IN  LastIdx(planning_df.columns, IsRep)

\* dict(zip(customers, reps)).get(customer): a later row replaces an earlier
\* one with the same key; "" (NaN) when the customer is no key
MappingGet(planning_df, customer) ==
    LET c == customer_col(planning_df)
        r == rep_col(planning_df)
        IsKey(row) == row[c] = customer
        hit == IF c = 0 \/ r = 0 THEN 0
               ELSE LastIdx(planning_df.rows, IsKey)
    IN  IF hit = 0 THEN "" ELSE planning_df.rows[hit][r]

\* Series.fillna(other): a missing value takes the other series' value
fillna(value, other) == IF value = "" THEN other ELSE value

\* mutant of apply_customer_mappings: the mapping only fills a missing
\* salesperson
apply_customer_mappings_original_wins(rows, planning_df) ==
    [i \in DOMAIN rows |->
        [Customer |-> rows[i].Customer,
         Salesperson |-> fillna(rows[i].Salesperson,
                                MappingGet(planning_df, rows[i].Customer)),
         Salesperson_Original |-> rows[i].Salesperson,
         PostedDate |-> rows[i].PostedDate,
         NetPrice |-> rows[i].NetPrice]]

apply_customer_mappings(rows, planning_df) ==
    [i \in DOMAIN rows |->
        [Customer |-> rows[i].Customer,
         Salesperson |-> fillna(MappingGet(planning_df, rows[i].Customer),
                                rows[i].Salesperson),
         Salesperson_Original |-> rows[i].Salesperson,
         PostedDate |-> rows[i].PostedDate,
         NetPrice |-> rows[i].NetPrice]]

\* process_files, line 184
ApplyMappings ==
    /\ pc = "validated"
    /\ sales_df_mapped' = apply_customer_mappings(sales_df_clean, planning_file)
    /\ pc' = "mapped"
    /\ UNCHANGED <<inputs, clock, sales_df, sales_df_clean, quality_report,
                   dormant_customers, salesperson_summaries, insights,
                   accuracy_score, outcomes>>

SalespersonIsNa(row) == row.Salesperson = ""

\* process_files, lines 187-188
UpdateQualityReport ==
    /\ pc = "mapped"
    /\ quality_report' =
          [quality_report EXCEPT !.missing_customer_mappings =
              CountIf(sales_df_mapped, SalespersonIsNa)]
    /\ pc' = "reported"
    /\ UNCHANGED <<inputs, clock, sales_df, sales_df_clean, sales_df_mapped,
                   dormant_customers, salesperson_summaries, insights,
                   accuracy_score, outcomes>>

\* ------------------------------------------------------ AdvancedAnalytics
Dates(rows) == [i \in DOMAIN rows |-> rows[i].PostedDate.v]
Prices(rows) == [i \in DOMAIN rows |-> rows[i].NetPrice.v]

RECURSIVE MaxSeq(_)
MaxSeq(s) ==
    IF Len(s) = 1 THEN s[1]
    ELSE LET m == MaxSeq(Tail(s)) IN IF m > Head(s) THEN m ELSE Head(s)

\* groupby(to_period('M'))['Net price'].sum().sort_index(): one sum per
\* calendar month that has a row, months ascending
monthly_spending(rows) ==
    LET SumOf(m) == SumSeq(Prices(SelectSeq(rows, LAMBDA r : ToPeriodM(r.PostedDate.v) = m)))
        present == {ToPeriodM(rows[i].PostedDate.v) : i \in DOMAIN rows}
        Rank(m) == Cardinality({q \in present : q < m}) + 1
    IN  [k \in 1..Cardinality(present) |->
            SumOf(CHOOSE m \in present : Rank(m) = k)]

\* np.polyfit(arange(len(y)), y, 1)[0]: least-squares slope
PolyfitSlope(y) ==
    LET k == Len(y)
        sx == SumSeq([i \in 1..k |-> i - 1])
        sxx == SumSeq([i \in 1..k |-> (i - 1) * (i - 1)])
        sy == SumSeq(y)
        sxy == SumSeq([i \in 1..k |-> (i - 1) * y[i]])
    IN  Rat(k * sxy - sx * sy, k * sxx - sx * sx)

\* mutant of calculate_value_trend: no test of the number of records
calculate_value_trend_months_only(customer_data) ==
    LET y == monthly_spending(customer_data)
    IN  IF Len(y) < 2 THEN Rat(1, 2)
        ELSE LET slope == PolyfitSlope(y)
                 mean == Rat(SumSeq(y), Len(y))
             IN  PyMax(PyMin(RAdd(RDiv(slope, mean), Rat(1, 2)), RInt(1)), RInt(0))

calculate_value_trend(customer_data) ==
    IF Len(customer_data) < 3 THEN Rat(1, 2)
    ELSE LET y == monthly_spending(customer_data)
         IN  IF Len(y) < 2 THEN Rat(1, 2)
             ELSE LET slope == PolyfitSlope(y)
                      mean == Rat(SumSeq(y), Len(y))
                  IN  PyMax(PyMin(RAdd(RDiv(slope, mean), Rat(1, 2)), RInt(1)), RInt(0))

calculate_churn_risk_score(customer_data, cfg) ==
    IF customer_data = <<>> THEN Rat(1, 2)
    ELSE LET days_since_last_order == cfg.today_date - MaxSeq(Dates(customer_data))
             order_frequency == Rat(Len(customer_data), cfg.analysis_period_months * 30)
             avg_order_value == Rat(SumSeq(Prices(customer_data)), Len(customer_data))
             value_trend == calculate_value_trend(customer_data)
             recency_score == PyMin(Rat(days_since_last_order, 90), RInt(1))
             frequency_score == PyMax(RSub(RInt(1), order_frequency), RInt(0))
             value_score == PyMax(RSub(RInt(1), RDiv(avg_order_value, RInt(1000))), RInt(0))
             trend_score == PyMax(RSub(RInt(1), value_trend), RInt(0))
             risk_score ==
                RAdd(RAdd(RMul(recency_score, Rat(4, 10)),
                          RMul(frequency_score, Rat(3, 10))),
                     RAdd(RMul(value_score, Rat(2, 10)),
                          RMul(trend_score, Rat(1, 10))))
         IN  PyMin(PyMax(risk_score, RInt(0)), RInt(1))

\* round(x, 2): to the nearest cent, a tie to the even cent
Round2(x) ==
    LET num == x.n * 100
        q == num \div x.d
        twice == 2 * (num - q * x.d)
        up == twice > x.d \/ (twice = x.d /\ q % 2 = 1)
    IN  Rat(IF up THEN q + 1 ELSE q, 100)

\* mutant of calculate_customer_lifetime_value: no floor of 6 orders
calculate_customer_lifetime_value_nofloor(customer_data) ==
    IF customer_data = <<>> THEN RInt(0)
    ELSE LET total_spent == SumSeq(Prices(customer_data))
             order_count == Len(customer_data)
             avg_order_value == Rat(total_spent, order_count)
             estimated_annual_orders ==
                order_count * 2
         IN  Round2(RMul(avg_order_value, RInt(estimated_annual_orders)))

calculate_customer_lifetime_value(customer_data) ==
    IF customer_data = <<>> THEN RInt(0)
    ELSE LET total_spent == SumSeq(Prices(customer_data))
             order_count == Len(customer_data)
             avg_order_value == Rat(total_spent, order_count)
             estimated_annual_orders ==
                IF order_count * 2 > 6 THEN order_count * 2 ELSE 6
         IN  Round2(RMul(avg_order_value, RInt(estimated_annual_orders)))

Season(month) ==
    IF month \in {12, 1, 2} THEN "Winter buyer"
    ELSE IF month \in {3, 4, 5} THEN "Spring buyer"
    ELSE IF month \in {6, 7, 8} THEN "Summer buyer"
    ELSE IF month \in {9, 10, 11} THEN "Fall buyer"
    ELSE "No clear pattern"

\* mutant of identify_seasonal_patterns: the last month of the largest count
identify_seasonal_patterns_last(customer_data) ==
    IF Len(customer_data) < 6 THEN ""
    ELSE LET Orders(m) == Cardinality({i \in DOMAIN customer_data :
                                         MonthOf(customer_data[i].PostedDate.v) = m})
             peak_month == CHOOSE m \in 1..12 :
                              /\ \A q \in 1..12 : Orders(q) <= Orders(m)
                              /\ \A q \in (m + 1)..12 : Orders(q) < Orders(m)
         IN  Season(peak_month)

\* "" stands for None; idxmax returns the first label of the largest count
\* and groupby lists the months in ascending order
identify_seasonal_patterns(customer_data) ==
    IF Len(customer_data) < 6 THEN ""
    ELSE LET Orders(m) == Cardinality({i \in DOMAIN customer_data :
                                         MonthOf(customer_data[i].PostedDate.v) = m})
             peak_month == CHOOSE m \in 1..12 :
                              /\ \A q \in 1..12 : Orders(q) <= Orders(m)
                              /\ \A q \in 1..(m - 1) : Orders(q) < Orders(m)
         IN  Season(peak_month)

\* --------------------------------------------- _identify_dormant_customers
cutoff_date(cfg) == cfg.today_date - cfg.dormant_days_threshold

analysis_start(cfg) == cfg.today_date - cfg.analysis_period_months * 30

\* mutants of period_sales: the window opens after analysis_start / there
\* is no window
period_sales_strict(rows, cfg) ==
    SelectSeq(rows, LAMBDA r : r.PostedDate.v > cfg.today_date - cfg.analysis_period_months * 30)

period_sales_unfiltered(rows, cfg) == rows

\* line 274
period_sales(rows, cfg) ==
    SelectSeq(rows, LAMBDA r : r.PostedDate.v >= analysis_start(cfg))

CustomerData(rows, customer) == SelectSeq(rows, LAMBDA r : r.Customer = customer)

\* mutant of dormant_customer_names: the cutoff counts as dormant
dormant_customer_names_inclusive(rows, cfg) ==
    LET period == SelectSeq(rows, LAMBDA r : r.PostedDate.v >= analysis_start(cfg))
        IsDormant(customer) ==
            LET data == SelectSeq(period, LAMBDA r : r.Customer = customer)
            IN  /\ data # <<>>
                /\ MaxSeq(Dates(data)) >= analysis_start(cfg)
                /\ MaxSeq(Dates(data)) <= cutoff_date(cfg)
    IN  SelectSeq(CustomerOrder, IsDormant)

\* lines 277-285: per customer of the period the last posted date, then the
\* mask; groupby lists the customers in sorted order
dormant_customer_names(rows, cfg) ==
    LET period == period_sales(rows, cfg)
        IsDormant(customer) ==
            LET data == CustomerData(period, customer)
            IN  /\ data # <<>>
                /\ MaxSeq(Dates(data)) >= analysis_start(cfg)
                /\ MaxSeq(Dates(data)) < cutoff_date(cfg)
    IN  SelectSeq(CustomerOrder, IsDormant)

\* the keyword arguments of lines 302-314
DormantCustomerArgs(customer, customer_data, cfg) ==
    [customer |-> customer,
     salesperson |-> customer_data[1].Salesperson,
     last_order_date |-> MaxSeq(Dates(customer_data)),
     days_since_order |-> cfg.today_date - MaxSeq(Dates(customer_data)),
     total_6_month_value |-> SumSeq(Prices(customer_data)),
     order_count_6_months |-> Len(customer_data),
     average_order_value |-> Rat(SumSeq(Prices(customer_data)), Len(customer_data)),
     churn_risk_score |-> calculate_churn_risk_score(customer_data, cfg),
     customer_lifetime_value |-> calculate_customer_lifetime_value(customer_data),
     seasonal_pattern |-> identify_seasonal_patterns(customer_data)]

identify_dormant_customers(rows, cfg) ==
    LET names == dormant_customer_names(rows, cfg)
        period == period_sales(rows, cfg)
    IN  [i \in DOMAIN names |->
            DormantCustomerArgs(names[i], CustomerData(period, names[i]), cfg)]

\* models.py, DormantCustomer: what the pydantic in use does with the
\* arguments.  Release 1 turns a float NaN given for a str field into "nan"
\* and rejects a NaN for Field(ge=0, le=1); release 2 rejects a float for a
\* str field and lets a NaN pass the bounds.
Rejects(release, args) ==
    IF release = "v1" THEN IsNaN(args.churn_risk_score)
    ELSE args.salesperson = ""

DormantCustomer(release, args) ==
    [args EXCEPT !.salesperson = IF release = "v1" /\ @ = "" THEN "nan" ELSE @]

\* process_files, line 191
IdentifyDormant ==
    /\ pc = "reported"
    /\ LET args == identify_dormant_customers(sales_df_mapped, config)
       IN  IF \E i \in DOMAIN args : Rejects(pydantic, args[i])
           THEN /\ Raise
                /\ UNCHANGED dormant_customers
           ELSE /\ dormant_customers' =
                      [i \in DOMAIN args |-> DormantCustomer(pydantic, args[i])]
                /\ pc' = "identified"
                /\ UNCHANGED outcomes
    /\ UNCHANGED <<inputs, clock, sales_df, sales_df_clean, quality_report,
                   sales_df_mapped, salesperson_summaries, insights,
                   accuracy_score>>

\* ---------------------------------------- _generate_salesperson_summaries
\* mutant of RepsInOrder: a new entry per dormant customer
RepsInOrder_nodedupe(customers) ==
    [k \in DOMAIN customers |-> customers[k].salesperson]

\* keys of rep_data in insertion order: the salespersons in the order of
\* their first dormant customer
RepsInOrder(customers) ==
    LET first == {i \in DOMAIN customers :
                     \A j \in 1..(i - 1) : customers[j].salesperson # customers[i].salesperson}
        Rank(i) == Cardinality({j \in first : j < i}) + 1
    IN  [k \in 1..Cardinality(first) |->
            customers[CHOOSE i \in first : Rank(i) = k].salesperson]

\* mutant of IsHighValue: the comparison is strict
IsHighValue_strict(customer, cfg) == customer.total_6_month_value > cfg.high_value_threshold

IsHighValue(customer, cfg) == customer.total_6_month_value >= cfg.high_value_threshold

IsQuickWin(customer, cfg) ==
    /\ ~IsHighValue(customer, cfg)
    /\ customer.total_6_month_value <= cfg.quick_win_threshold

\* mutant of RepSummary: total_value is assigned, not accumulated
RepSummary_overwrite(rep, customers, cfg) ==
    LET mine == SelectSeq(customers, LAMBDA c : c.salesperson = rep)
    IN  [salesperson |-> rep,
         dormant_customer_count |-> Len(mine),
         total_value_at_risk |-> mine[Len(mine)].total_6_month_value,
         high_value_dormant_count |-> CountIf(mine, LAMBDA c : IsHighValue(c, cfg)),
         quick_win_count |-> CountIf(mine, LAMBDA c : IsQuickWin(c, cfg)),
         average_churn_risk |-> NpMean([i \in DOMAIN mine |-> mine[i].churn_risk_score])]

RepSummary(rep, customers, cfg) ==
    LET mine == SelectSeq(customers, LAMBDA c : c.salesperson = rep)
    IN  [salesperson |-> rep,
         dormant_customer_count |-> Len(mine),
         total_value_at_risk |-> SumSeq([i \in DOMAIN mine |-> mine[i].total_6_month_value]),
         high_value_dormant_count |-> CountIf(mine, LAMBDA c : IsHighValue(c, cfg)),
         quick_win_count |-> CountIf(mine, LAMBDA c : IsQuickWin(c, cfg)),
         average_churn_risk |->
            IF mine # <<>> THEN NpMean([i \in DOMAIN mine |-> mine[i].churn_risk_score])
            ELSE RInt(0)]

\* mutant of SortedByValueDesc: an ascending sort read backwards, equal keys
\* change places
SortedByValueDesc_reversed(s) ==
    LET Pos(i) == Cardinality({j \in DOMAIN s :
                      \/ s[j].total_value_at_risk > s[i].total_value_at_risk
                      \/ /\ s[j].total_value_at_risk = s[i].total_value_at_risk
                         /\ j > i}) + 1
    IN  [k \in DOMAIN s |-> s[CHOOSE i \in DOMAIN s : Pos(i) = k]]

\* sorted(summaries, key=total_value_at_risk, reverse=True): descending and
\* stable, equal keys keep the order they had
SortedByValueDesc(s) ==
    LET Pos(i) == Cardinality({j \in DOMAIN s :
                      \/ s[j].total_value_at_risk > s[i].total_value_at_risk
                      \/ /\ s[j].total_value_at_risk = s[i].total_value_at_risk
                         /\ j < i}) + 1
    IN  [k \in DOMAIN s |-> s[CHOOSE i \in DOMAIN s : Pos(i) = k]]

generate_salesperson_summaries(customers, cfg) ==
    LET reps == RepsInOrder(customers)
    IN  SortedByValueDesc([k \in DOMAIN reps |-> RepSummary(reps[k], customers, cfg)])

\* process_files, line 194
GenerateSummaries ==
    /\ pc = "identified"
    /\ salesperson_summaries' = generate_salesperson_summaries(dormant_customers, config)
    /\ pc' = "summarised"
    /\ UNCHANGED <<inputs, clock, sales_df, sales_df_clean, quality_report,
                   sales_df_mapped, dormant_customers, insights, accuracy_score,
                   outcomes>>

\* ------------------------------------------------------ _generate_insights
\* max(seq, key=...): the first element with the largest key
FirstMax(s, Key(_)) ==
    s[CHOOSE i \in DOMAIN s :
         /\ \A j \in DOMAIN s : Key(s[j]) <= Key(s[i])
         /\ \A j \in 1..(i - 1) : Key(s[j]) < Key(s[i])]

ErrorInsights == "error" :> [message |-> "No dormant customers found for analysis"]

generate_insights(customers, summaries) ==
    IF customers = <<>> \/ summaries = <<>> THEN ErrorInsights
    ELSE LET top_rep == summaries[1]
             top_customer == FirstMax(customers, LAMBDA c : c.total_6_month_value)
             quick_wins == SelectSeq(summaries, LAMBDA x : x.quick_win_count > 0)
             seasonal_customers == SelectSeq(customers, LAMBDA c : c.seasonal_pattern # "")
             Count(pattern) ==
                CountIf(seasonal_customers, LAMBDA c : c.seasonal_pattern = pattern)
             top_pattern ==
                FirstMax(seasonal_customers, LAMBDA c : Count(c.seasonal_pattern)).seasonal_pattern
         IN  ("top_priority_rep" :>
                 [salesperson |-> top_rep.salesperson,
                  total_value_at_risk |-> top_rep.total_value_at_risk,
                  dormant_customer_count |-> top_rep.dormant_customer_count,
                  average_churn_risk |-> top_rep.average_churn_risk])
             @@ ("top_priority_customer" :>
                 [customer |-> top_customer.customer,
                  total_6_month_value |-> top_customer.total_6_month_value,
                  salesperson |-> top_customer.salesperson,
                  churn_risk_score |-> top_customer.churn_risk_score])
             @@ (IF quick_wins # <<>>
                 THEN "quick_wins" :>
                         [salesperson |-> FirstMax(quick_wins, LAMBDA x : x.quick_win_count).salesperson,
                          quick_win_count |-> FirstMax(quick_wins, LAMBDA x : x.quick_win_count).quick_win_count]
                 ELSE <<>>)
             @@ (IF seasonal_customers # <<>>
                 THEN "seasonal_insight" :>
                         [pattern |-> top_pattern, count |-> Count(top_pattern)]
                 ELSE <<>>)

\* process_files, line 195
GenerateInsights ==
    /\ pc = "summarised"
    /\ insights' = generate_insights(dormant_customers, salesperson_summaries)
    /\ pc' = "insights"
    /\ UNCHANGED <<inputs, clock, sales_df, sales_df_clean, quality_report,
                   sales_df_mapped, dormant_customers, salesperson_summaries,
                   accuracy_score, outcomes>>

\* ------------------------------------------------ _calculate_accuracy_score
\* mutant of calculate_accuracy_score: no guard for an empty batch
calculate_accuracy_score_noguard(report) ==
    LET validity_score ==
           RSub(RInt(1), Rat(report.invalid_dates + report.invalid_prices,
                             report.total_records))
        mapping_score ==
           RSub(RInt(1), Rat(report.missing_customer_mappings, report.total_records))
        accuracy ==
           RAdd(RMul(report.data_completeness_score, Rat(4, 10)),
                RAdd(RMul(validity_score, Rat(3, 10)),
                     RMul(mapping_score, Rat(3, 10))))
    IN  PyMin(PyMax(accuracy, RInt(0)), RInt(1))

\* mutant of calculate_accuracy_score: the weights of completeness and
\* validity are exchanged
calculate_accuracy_score_weights(report) ==
    IF report.total_records = 0 THEN RInt(0)
    ELSE LET completeness_score == report.data_completeness_score
             validity_score ==
                RSub(RInt(1), Rat(report.invalid_dates + report.invalid_prices,
                                  report.total_records))
             mapping_score ==
                RSub(RInt(1), Rat(report.missing_customer_mappings, report.total_records))
             accuracy ==
                RAdd(RMul(completeness_score, Rat(3, 10)),
                     RAdd(RMul(validity_score, Rat(4, 10)),
                          RMul(mapping_score, Rat(3, 10))))
         IN  PyMin(PyMax(accuracy, RInt(0)), RInt(1))

calculate_accuracy_score(report) ==
    IF report.total_records = 0 THEN RInt(0)
    ELSE LET completeness_score == report.data_completeness_score
             validity_score ==
                RSub(RInt(1), Rat(report.invalid_dates + report.invalid_prices,
                                  report.total_records))
             mapping_score ==
                RSub(RInt(1), Rat(report.missing_customer_mappings, report.total_records))
             accuracy ==
                RAdd(RMul(completeness_score, Rat(4, 10)),
                     RAdd(RMul(validity_score, Rat(3, 10)),
                          RMul(mapping_score, Rat(3, 10))))
         IN  PyMin(PyMax(accuracy, RInt(0)), RInt(1))

\* process_files, line 198
CalculateAccuracy ==
    /\ pc = "insights"
    /\ accuracy_score' = calculate_accuracy_score(quality_report)
    /\ pc' = "scored"
    /\ UNCHANGED <<inputs, clock, sales_df, sales_df_clean, quality_report,
                   sales_df_mapped, dormant_customers, salesperson_summaries,
                   insights, outcomes>>

\* ------------------------------------------------------- ProcessingResult
nunique(rows) == Cardinality({rows[i].Customer : i \in DOMAIN rows})

\* mutant of ProcessingResult: the count of customers is taken at the clock
ProcessingResult_clocked(now) ==
    [summary |->
        [total_dormant_customers |-> Len(dormant_customers),
         total_value_at_risk |->
            SumSeq([i \in DOMAIN dormant_customers |->
                       dormant_customers[i].total_6_month_value]),
         average_churn_risk |->
            IF dormant_customers # <<>>
            THEN NpMean([i \in DOMAIN dormant_customers |->
                            dormant_customers[i].churn_risk_score])
            ELSE RInt(0),
         data_quality_score |-> accuracy_score],
     salesperson_summaries |-> salesperson_summaries,
     dormant_customers |-> dormant_customers,
     insights |-> insights,
     data_quality_report |-> quality_report,
     processing_timestamp |-> now,
     total_customers_analyzed |-> nunique(sales_df_mapped) + now,
     data_accuracy_score |-> accuracy_score]

\* mutant of ProcessingResult: the report is the one the validator returned
ProcessingResult_stale_report(now) ==
    [summary |->
        [total_dormant_customers |-> Len(dormant_customers),
         total_value_at_risk |->
            SumSeq([i \in DOMAIN dormant_customers |->
                       dormant_customers[i].total_6_month_value]),
         average_churn_risk |->
            IF dormant_customers # <<>>
            THEN NpMean([i \in DOMAIN dormant_customers |->
                            dormant_customers[i].churn_risk_score])
            ELSE RInt(0),
         data_quality_score |-> accuracy_score],
     salesperson_summaries |-> salesperson_summaries,
     dormant_customers |-> dormant_customers,
     insights |-> insights,
     data_quality_report |-> [quality_report EXCEPT !.missing_customer_mappings = 0],
     processing_timestamp |-> now,
     total_customers_analyzed |-> nunique(sales_df_mapped),
     data_accuracy_score |-> accuracy_score]

\* the keyword arguments of lines 200-214; now is the value datetime.now()
\* returns
ProcessingResult(now) ==
    [summary |->
        [total_dormant_customers |-> Len(dormant_customers),
         total_value_at_risk |->
            SumSeq([i \in DOMAIN dormant_customers |->
                       dormant_customers[i].total_6_month_value]),
         average_churn_risk |->
            IF dormant_customers # <<>>
            THEN NpMean([i \in DOMAIN dormant_customers |->
                            dormant_customers[i].churn_risk_score])
            ELSE RInt(0),
         data_quality_score |-> accuracy_score],
     salesperson_summaries |-> salesperson_summaries,
     dormant_customers |-> dormant_customers,
     insights |-> insights,
     data_quality_report |-> quality_report,
     processing_timestamp |-> now,
     total_customers_analyzed |-> nunique(sales_df_mapped),
     data_accuracy_score |-> accuracy_score]

\* process_files, lines 200-214; the wall clock never runs backwards
Return ==
    /\ pc = "scored"
    /\ \E now \in clock..MaxClock :
          /\ clock' = now
          /\ outcomes' = Append(outcomes, [ok |-> TRUE, value |-> ProcessingResult(now)])
    /\ pc' = "idle"
    /\ UNCHANGED <<inputs, sales_df, sales_df_clean, quality_report,
                   sales_df_mapped, dormant_customers, salesperson_summaries,
                   insights, accuracy_score>>

\* -------------------------------------------------------- specifications
Next ==
    \/ LoadFiles
    \/ Validate
    \/ ApplyMappings
    \/ UpdateQualityReport
    \/ IdentifyDormant
    \/ GenerateSummaries
    \/ GenerateInsights
    \/ CalculateAccuracy
    \/ Return

Spec == Init /\ [][Next]_vars

SpecRerun == InitRerun /\ [][Next]_vars

SpecWide == InitWide /\ [][Next]_vars

\* ------------------------------------------- AdvancedAnalytics, called alone
\* the static methods are called on a frame, with no processor at work
InitAnalytics ==
    /\ analytics_data \in SeqsUpTo(OrderPool, MaxOrders)
    /\ analytics = NoCall
    /\ sales_file = [title_lines |-> SkipRows, header |-> "header", rows |-> <<>>]
    /\ planning_file = [columns |-> <<>>, rows |-> <<>>]
    /\ config = DefaultConfig
    /\ run_limit = 0
    /\ pydantic \in PydanticReleases
    /\ clock = 0
    /\ pc = "idle"
    /\ outcomes = <<>>
    /\ Locals0
    /\ JobStore0

\* the same with frames of up to MaxLongOrders records
InitAnalyticsLong ==
    /\ analytics_data \in SeqsUpTo(LongOrderPool, MaxLongOrders)
    /\ analytics = NoCall
    /\ sales_file = [title_lines |-> SkipRows, header |-> "header", rows |-> <<>>]
    /\ planning_file = [columns |-> <<>>, rows |-> <<>>]
    /\ config = DefaultConfig
    /\ run_limit = 0
    /\ pydantic \in PydanticReleases
    /\ clock = 0
    /\ pc = "idle"
    /\ outcomes = <<>>
    /\ Locals0
    /\ JobStore0

\* AdvancedAnalytics._calculate_value_trend(customer_data)
CalculateValueTrend ==
    /\ analytics = NoCall
    /\ analytics' = [call |-> "_calculate_value_trend",
                     result |-> calculate_value_trend(analytics_data)]
    /\ UNCHANGED <<sales_file, planning_file, config, run_limit, pydantic, clock, pc,
                   sales_df, sales_df_clean, quality_report, sales_df_mapped,
                   dormant_customers, salesperson_summaries, insights,
                   accuracy_score, outcomes, analytics_data, processing_status,
                   processing_results, temp_dirs, tasks, requests>>

\* AdvancedAnalytics.calculate_churn_risk_score(customer_data, config)
CalculateChurnRiskScore ==
    /\ analytics = NoCall
    /\ analytics' = [call |-> "calculate_churn_risk_score",
                     result |-> calculate_churn_risk_score(analytics_data, config)]
    /\ UNCHANGED <<sales_file, planning_file, config, run_limit, pydantic, clock, pc,
                   sales_df, sales_df_clean, quality_report, sales_df_mapped,
                   dormant_customers, salesperson_summaries, insights,
                   accuracy_score, outcomes, analytics_data, processing_status,
                   processing_results, temp_dirs, tasks, requests>>

\* AdvancedAnalytics.calculate_customer_lifetime_value(customer_data)
CalculateCustomerLifetimeValue ==
    /\ analytics = NoCall
    /\ analytics' = [call |-> "calculate_customer_lifetime_value",
                     result |-> calculate_customer_lifetime_value(analytics_data)]
    /\ UNCHANGED <<sales_file, planning_file, config, run_limit, pydantic, clock, pc,
                   sales_df, sales_df_clean, quality_report, sales_df_mapped,
                   dormant_customers, salesperson_summaries, insights,
                   accuracy_score, outcomes, analytics_data, processing_status,
                   processing_results, temp_dirs, tasks, requests>>

\* AdvancedAnalytics.identify_seasonal_patterns(customer_data)
IdentifySeasonalPatterns ==
    /\ analytics = NoCall
    /\ analytics' = [call |-> "identify_seasonal_patterns",
                     result |-> identify_seasonal_patterns(analytics_data)]
    /\ UNCHANGED <<sales_file, planning_file, config, run_limit, pydantic, clock, pc,
                   sales_df, sales_df_clean, quality_report, sales_df_mapped,
                   dormant_customers, salesperson_summaries, insights,
                   accuracy_score, outcomes, analytics_data, processing_status,
                   processing_results, temp_dirs, tasks, requests>>

NextAnalytics ==
    \/ CalculateValueTrend
    \/ CalculateChurnRiskScore
    \/ CalculateCustomerLifetimeValue
    \/ IdentifySeasonalPatterns

SpecAnalytics == InitAnalytics /\ [][NextAnalytics]_vars

SpecAnalyticsLong == InitAnalyticsLong /\ [][NextAnalytics]_vars

\* ------------------------------------------------------------ properties
\* the last call returned a result, whose parts the locals still hold
Finished == pc = "idle" /\ outcomes # <<>> /\ outcomes[Len(outcomes)].ok

HasIdentified == pc \in {"identified", "summarised", "insights", "scored"} \/ Finished

HasSummaries == pc \in {"summarised", "insights", "scored"} \/ Finished

HasInsights == pc \in {"insights", "scored"} \/ Finished

DormantNames == {dormant_customers[i].customer : i \in DOMAIN dormant_customers}

\* posted dates of a customer's reconciled records that lie in the window
WindowDates(customer) ==
    {sales_df_mapped[i].PostedDate.v : i \in
        {j \in DOMAIN sales_df_mapped :
            /\ sales_df_mapped[j].Customer = customer
            /\ sales_df_mapped[j].PostedDate.v >= config.today_date - config.analysis_period_months * 30}}

LastOrderDate(customer) ==
    CHOOSE d \in WindowDates(customer) : \A e \in WindowDates(customer) : e <= d

\* C1: a customer whose last order date in the window is exactly
\* as_of_date - dormant_days_threshold is never in the dormant list.
C1_BoundaryNotDormant ==
    HasIdentified =>
        \A c \in Range(CustomerOrder) :
            (/\ WindowDates(c) # {}
             /\ LastOrderDate(c) = config.today_date - config.dormant_days_threshold)
            => c \notin DormantNames

C1_Witness ==
    /\ HasIdentified
    /\ dormant_customers # <<>>
    /\ \E c \in Range(CustomerOrder) :
          /\ WindowDates(c) # {}
          /\ LastOrderDate(c) = config.today_date - config.dormant_days_threshold

TotalAtRisk(summaries) ==
    SumSeq([k \in DOMAIN summaries |-> summaries[k].total_value_at_risk])

TotalWindowValue(customers) ==
    SumSeq([i \in DOMAIN customers |-> customers[i].total_6_month_value])

\* C3: the total_value_at_risk of all summaries adds up to the
\* total_6_month_value of all dormant customers.
C3_ValueConserved ==
    HasSummaries => TotalAtRisk(salesperson_summaries) = TotalWindowValue(dormant_customers)

C3_Witness ==
    /\ HasSummaries
    /\ Len(salesperson_summaries) = 2
    /\ \A i \in DOMAIN dormant_customers : dormant_customers[i].total_6_month_value > 0

\* C4: every salesperson of a dormant customer is the salesperson of
\* exactly one summary, and every summary counts the dormant customers of
\* its salesperson, of which there is at least one.
C4_OneSummaryPerRep ==
    HasSummaries =>
        /\ \A i \in DOMAIN dormant_customers :
              Cardinality({k \in DOMAIN salesperson_summaries :
                  salesperson_summaries[k].salesperson = dormant_customers[i].salesperson}) = 1
        /\ \A k \in DOMAIN salesperson_summaries :
              /\ salesperson_summaries[k].dormant_customer_count >= 1
              /\ salesperson_summaries[k].dormant_customer_count =
                    Cardinality({i \in DOMAIN dormant_customers :
                        dormant_customers[i].salesperson = salesperson_summaries[k].salesperson})

C4_Witness ==
    /\ HasSummaries
    /\ Len(dormant_customers) = 2
    /\ Len(salesperson_summaries) = 1

\* C5: days_since_order of every dormant customer is non-negative and is the
\* distance from its last_order_date, the latest posted date in the window,
\* to the as-of date.
C5_DaysSinceOrder ==
    HasIdentified =>
        \A i \in DOMAIN dormant_customers :
            /\ dormant_customers[i].days_since_order >= 0
            /\ dormant_customers[i].days_since_order =
                  config.today_date - dormant_customers[i].last_order_date
            /\ dormant_customers[i].last_order_date =
                  LastOrderDate(dormant_customers[i].customer)

\* C6: every churn_risk_score and every average_churn_risk lies in [0, 1].
C6_ScoresInUnit ==
    /\ HasIdentified =>
          \A i \in DOMAIN dormant_customers : InUnit(dormant_customers[i].churn_risk_score)
    /\ HasSummaries =>
          \A k \in DOMAIN salesperson_summaries :
              InUnit(salesperson_summaries[k].average_churn_risk)

SameButTimestamp(a, b) ==
    /\ a.ok = b.ok
    /\ a.ok => [a.value EXCEPT !.processing_timestamp = 0]
                 = [b.value EXCEPT !.processing_timestamp = 0]

WindowRows(customer) ==
    {j \in DOMAIN sales_df_mapped :
        /\ sales_df_mapped[j].Customer = customer
        /\ sales_df_mapped[j].PostedDate.v >= config.today_date - config.analysis_period_months * 30}

RECURSIVE PriceSum(_)
PriceSum(S) ==
    IF S = {} THEN 0
    ELSE LET j == CHOOSE x \in S : TRUE
         IN  sales_df_mapped[j].NetPrice.v + PriceSum(S \ {j})

\* C8: total_6_month_value is the sum of the net prices of exactly the
\* customer's records in the window, order_count_6_months their number and
\* average_order_value the total divided by the count.
C8_WindowTotals ==
    HasIdentified =>
        \A i \in DOMAIN dormant_customers :
            LET d == dormant_customers[i]
                rows == WindowRows(d.customer)
            IN  /\ d.total_6_month_value = PriceSum(rows)
                /\ d.order_count_6_months = Cardinality(rows)
                /\ d.average_order_value.d > 0
                /\ d.average_order_value.n * Cardinality(rows)
                      = PriceSum(rows) * d.average_order_value.d

C8_Witness ==
    /\ HasIdentified
    /\ \E i \in DOMAIN dormant_customers :
          /\ dormant_customers[i].order_count_6_months = 2
          /\ dormant_customers[i].total_6_month_value > 0
          /\ \E j \in DOMAIN sales_df_mapped :
                /\ sales_df_mapped[j].Customer = dormant_customers[i].customer
                /\ j \notin WindowRows(dormant_customers[i].customer)

\* the planning cell that dict(zip(...)) keeps for a customer: the one of
\* the last planning row with that customer; {} when there is no such row
\* or the two columns were not found
PlannedReps(customer) ==
    LET c == customer_col(planning_file)
        r == rep_col(planning_file)
    IN  IF c = 0 \/ r = 0 THEN {}
        ELSE {planning_file.rows[i][r] : i \in
                {j \in DOMAIN planning_file.rows :
                    /\ planning_file.rows[j][c] = customer
                    /\ \A l \in (j + 1)..Len(planning_file.rows) :
                          planning_file.rows[l][c] # customer}}

\* C9: every record of a customer in the mapping carries the mapped
\* representative, every record of a customer not in it keeps its original
\* salesperson, and the dormant record of a mapped customer has the mapped
\* representative.
C9_Original ==
    /\ \A i \in DOMAIN sales_df_mapped :
          LET row == sales_df_mapped[i]
          IN  /\ \A rep \in PlannedReps(row.Customer) : row.Salesperson = rep
              /\ PlannedReps(row.Customer) = {} => row.Salesperson = sales_df_clean[i].Salesperson
    /\ \A i \in DOMAIN dormant_customers :
          \A rep \in PlannedReps(dormant_customers[i].customer) :
              dormant_customers[i].salesperson = rep

\* C9 (amended): every record of a customer that the mapping gives a
\* non-blank representative carries that representative, every record of a
\* customer that is not in the mapping or has a blank representative cell
\* there keeps its original salesperson, and the dormant record of a
\* customer with a non-blank mapped representative has that representative.
C9_MappingWins ==
    /\ \A i \in DOMAIN sales_df_mapped :
          LET row == sales_df_mapped[i]
          IN  /\ \A rep \in PlannedReps(row.Customer) \ {""} : row.Salesperson = rep
              /\ PlannedReps(row.Customer) \subseteq {""}
                    => row.Salesperson = sales_df_clean[i].Salesperson
              /\ row.Salesperson_Original = sales_df_clean[i].Salesperson
    /\ \A i \in DOMAIN dormant_customers :
          \A rep \in PlannedReps(dormant_customers[i].customer) \ {""} :
              dormant_customers[i].salesperson = rep

C9_Witness ==
    /\ \E i \in DOMAIN dormant_customers :
          /\ "Mike Allen" \in PlannedReps(dormant_customers[i].customer)
          /\ dormant_customers[i].salesperson = "Mike Allen"
    /\ \E i \in DOMAIN sales_df_mapped :
          /\ sales_df_mapped[i].Salesperson_Original = "Old Rep"
          /\ sales_df_mapped[i].Salesperson = "Mike Allen"
    /\ \E i \in DOMAIN sales_df_mapped :
          /\ PlannedReps(sales_df_mapped[i].Customer) = {}
          /\ sales_df_mapped[i].Salesperson = "Angela"

\* the sales report was read as a frame with the header's columns and no
\* record
ZeroRecords == sales_file.title_lines = SkipRows /\ sales_file.rows = <<>>

OnlyFieldDefects ==
    /\ sales_file.title_lines = SkipRows
    /\ \A i \in DOMAIN sales_file.rows :
          /\ sales_file.rows[i].Customer # ""
          /\ sales_file.rows[i].Salesperson # ""

\* C11: a run over a batch whose only defects are unparseable dates and
\* unparseable prices never raises: every call of process_files returns a
\* result.
C11_FieldDefectsNeverAbort ==
    OnlyFieldDefects => \A k \in DOMAIN outcomes : outcomes[k].ok

\* C12: validation replaces every unparseable price by zero, keeps the
\* record, and reports in invalid_prices the number of unparseable prices
\* of the batch.
C12_InvalidPricesCounted ==
    (pc = "validated") =>
        LET raw == sales_file.rows
            Unparseable(row) == to_numeric(row.NetPrice).k = "NaN"
            Droppable(row) == to_datetime(row.PostedDate).k = "NaT" \/ row.Customer = ""
        IN  /\ \A i \in DOMAIN raw :
                  Unparseable(raw[i]) => sales_df.rows[i].NetPrice = [k |-> "num", v |-> 0]
            /\ Len(sales_df_clean) =
                  Len(raw) - Cardinality({i \in DOMAIN raw : Droppable(raw[i])})
            /\ quality_report.invalid_prices =
                  Cardinality({i \in DOMAIN raw : Unparseable(raw[i])})

\* C13: validation drops exactly the records without a parseable posted
\* date or without a customer and keeps the others in order; valid_records
\* counts the records kept, total_records the records supplied, and
\* data_completeness_score is their ratio, 0 for an empty batch.
C13_DropsExactly ==
    (quality_report # NoReport) =>
        LET raw == sales_file.rows
            Lacking(row) == row.PostedDate = BadDate \/ row.Customer = ""
            expected == SelectSeq(raw, LAMBDA row : ~Lacking(row))
        IN  /\ Len(sales_df_clean) = Len(expected)
            /\ \A i \in DOMAIN expected :
                  /\ sales_df_clean[i].Customer = expected[i].Customer
                  /\ sales_df_clean[i].Salesperson = expected[i].Salesperson
                  /\ sales_df_clean[i].PostedDate.v = expected[i].PostedDate.v
            /\ quality_report.total_records = Len(raw)
            /\ quality_report.valid_records = Len(expected)
            /\ quality_report.data_completeness_score =
                  IF Len(raw) = 0 THEN RInt(0) ELSE Rat(Len(expected), Len(raw))

C13_Witness ==
    /\ quality_report # NoReport
    /\ \E i \in DOMAIN sales_file.rows : sales_file.rows[i].PostedDate = BadDate
    /\ \E i \in DOMAIN sales_file.rows : sales_file.rows[i].Customer = ""
    /\ \E i \in DOMAIN sales_file.rows : sales_file.rows[i].NetPrice = BadPrice
    /\ quality_report.total_records = 3
    /\ quality_report.valid_records = 1

\* the salesperson a record gets from the mapping built from columns c and r
\* of the planning table: the cell of the last planning row of its
\* customer, the original salesperson when there is none or it is blank
MappedFrom(c, r, row) ==
    LET hits == {k \in DOMAIN planning_file.rows : planning_file.rows[k][c] = row.Customer}
        last == CHOOSE k \in hits : \A j \in hits : j <= k
    IN  IF hits = {} \/ planning_file.rows[last][r] = "" THEN row.Salesperson
        ELSE planning_file.rows[last][r]

\* C14: when the planning table has a column named like "customer" and
\* another named like "rep", "salesperson" or "assigned", the mapping built
\* from two such columns is applied; when one of them cannot be found every
\* record keeps its original salesperson.
C14_SubstringColumns ==
    (pc = "mapped") =>
        LET cols == planning_file.columns
            pairs == {p \in (DOMAIN cols) \X (DOMAIN cols) :
                         p[1] # p[2] /\ NamesCustomer(cols[p[1]]) /\ NamesRep(cols[p[2]])}
        IN  /\ Len(sales_df_mapped) = Len(sales_df_clean)
            /\ IF pairs # {}
               THEN \E p \in pairs :
                       \A i \in DOMAIN sales_df_mapped :
                           sales_df_mapped[i].Salesperson =
                              MappedFrom(p[1], p[2], sales_df_clean[i])
               ELSE \A i \in DOMAIN sales_df_mapped :
                       sales_df_mapped[i].Salesperson = sales_df_clean[i].Salesperson

\* the header of the sales report has no 'Customer' column
SalesLacksCustomer == sales_file.header = "no_customer"

\* no column of the planning table is named like "customer"
PlanningLacksCustomer ==
    \A i \in DOMAIN planning_file.columns : ~NamesCustomer(planning_file.columns[i])

ValuesOf(rep) ==
    [i \in {j \in DOMAIN dormant_customers : dormant_customers[j].salesperson = rep}
        |-> dormant_customers[i].total_6_month_value]

\* C17 as stated: high_value_dormant_count is the number of the rep's
\* dormant customers whose window value exceeds high_value_threshold,
\* quick_win_count the number whose value is at or below
\* quick_win_threshold, and no customer is counted in both.
C17_Original ==
    HasSummaries =>
        \A k \in DOMAIN salesperson_summaries :
            LET value == ValuesOf(salesperson_summaries[k].salesperson)
                high == {i \in DOMAIN value : value[i] > config.high_value_threshold}
                quick == {i \in DOMAIN value : value[i] <= config.quick_win_threshold}
            IN  /\ salesperson_summaries[k].high_value_dormant_count = Cardinality(high)
                /\ salesperson_summaries[k].quick_win_count = Cardinality(quick)
                /\ high \cap quick = {}

\* C17 amended: high_value_dormant_count is the number of the rep's dormant
\* customers whose window value is at or above high_value_threshold,
\* quick_win_count the number whose value is below high_value_threshold and
\* at or below quick_win_threshold, and no customer is counted in both.
C17_AtOrAbove ==
    HasSummaries =>
        \A k \in DOMAIN salesperson_summaries :
            LET value == ValuesOf(salesperson_summaries[k].salesperson)
                high == {i \in DOMAIN value : value[i] >= config.high_value_threshold}
                quick == {i \in DOMAIN value :
                             /\ value[i] < config.high_value_threshold
                             /\ value[i] <= config.quick_win_threshold}
            IN  /\ salesperson_summaries[k].high_value_dormant_count = Cardinality(high)
                /\ salesperson_summaries[k].quick_win_count = Cardinality(quick)
                /\ salesperson_summaries[k].high_value_dormant_count
                      + salesperson_summaries[k].quick_win_count
                      <= salesperson_summaries[k].dormant_customer_count

C17_Witness ==
    /\ HasSummaries
    /\ \E k \in DOMAIN salesperson_summaries :
          /\ salesperson_summaries[k].high_value_dormant_count = 1
          /\ salesperson_summaries[k].quick_win_count = 0
          /\ \E i \in DOMAIN dormant_customers :
                /\ dormant_customers[i].salesperson = salesperson_summaries[k].salesperson
                /\ dormant_customers[i].total_6_month_value = config.high_value_threshold
                /\ dormant_customers[i].total_6_month_value <= config.quick_win_threshold

\* position in the dormant list of the first customer of a representative
FirstSeen(rep) ==
    LET mine == {i \in DOMAIN dormant_customers : dormant_customers[i].salesperson = rep}
    IN  CHOOSE i \in mine : \A j \in mine : i <= j

\* C18: the summaries are in descending order of total_value_at_risk, and
\* summaries of equal total_value_at_risk are in the order in which their
\* representatives first occur in the dormant-customer list.
C18_SortedStable ==
    HasSummaries =>
        \A k, l \in DOMAIN salesperson_summaries :
            (k < l) =>
                /\ salesperson_summaries[k].total_value_at_risk
                      >= salesperson_summaries[l].total_value_at_risk
                /\ (salesperson_summaries[k].total_value_at_risk
                       = salesperson_summaries[l].total_value_at_risk)
                      => FirstSeen(salesperson_summaries[k].salesperson)
                            < FirstSeen(salesperson_summaries[l].salesperson)

C18_Witness ==
    /\ HasSummaries
    /\ Len(salesperson_summaries) = 2
    /\ salesperson_summaries[1].total_value_at_risk = DefaultQuickWin
    /\ salesperson_summaries[2].total_value_at_risk = DefaultQuickWin

\* C19: a sales CSV made of one header line followed by N data rows loads
\* as N records under the header's column names, no data row lost or taken
\* for the header.
C19_HeaderFirstCsv ==
    (sales_file.title_lines = 0 /\ (pc # "idle" \/ outcomes # <<>>)) =>
        /\ sales_df.columns = sales_file.header
        /\ Len(sales_df.rows) = Len(sales_file.rows)
        /\ \A i \in DOMAIN sales_file.rows :
              sales_df.rows[i].Customer = sales_file.rows[i].Customer

\* calendar months that hold a record of the frame
MonthsOf(rows) == {ToPeriodM(rows[i].PostedDate.v) : i \in DOMAIN rows}

\* 0.5 + slope / mean of the monthly sums of the frame
FitOf(rows) ==
    LET y == monthly_spending(rows)
    IN  RAdd(Rat(1, 2), RDiv(PolyfitSlope(y), Rat(SumSeq(y), Len(y))))

Clamp01(x) ==
    IF RLt(x, RInt(0)) THEN RInt(0) ELSE IF RLt(RInt(1), x) THEN RInt(1) ELSE x

\* C20 as stated: with records in 2 or more distinct calendar months,
\* whatever their number, the trend is 0.5 + slope / mean monthly spend
\* clamped to [0, 1]; with fewer than 2 months it is 0.5.
C20_Original ==
    (analytics.call = "_calculate_value_trend") =>
        IF Cardinality(MonthsOf(analytics_data)) >= 2
        THEN /\ analytics.result = Clamp01(FitOf(analytics_data))
             /\ InUnit(analytics.result)
        ELSE analytics.result = Rat(1, 2)

\* C20 amended: with at least 3 records in 2 or more distinct calendar
\* months the trend is max(min(0.5 + slope / mean, 1), 0), which is the
\* clamp to [0, 1] unless the mean monthly spend is zero, where it is NaN;
\* with fewer than 3 records or fewer than 2 months it is 0.5.
C20_ThreeRecordsTwoMonths ==
    (analytics.call = "_calculate_value_trend") =>
        IF Len(analytics_data) >= 3 /\ Cardinality(MonthsOf(analytics_data)) >= 2
        THEN IF SumSeq(Prices(analytics_data)) = 0
             THEN IsNaN(analytics.result)
             ELSE /\ analytics.result = Clamp01(FitOf(analytics_data))
                  /\ InUnit(analytics.result)
        ELSE analytics.result = Rat(1, 2)

C20_Witness ==
    /\ analytics.call = "_calculate_value_trend"
    /\ Len(analytics_data) = 3
    /\ Cardinality(MonthsOf(analytics_data)) = 2
    /\ analytics.result = Rat(1, 10)

\* the weighted sum of C21 for a frame: 0.4 * min(days / 90, 1)
\* + 0.3 * max(1 - count / (months * 30), 0) + 0.2 * max(1 - avg / 1000, 0)
\* + 0.1 * (1 - trend), for the as-of date today
WeightedRisk(rows, today) ==
    LET days == today - MaxSeq(Dates(rows))
        recency == IF days >= 90 THEN RInt(1) ELSE Rat(days, 90)
        window == config.analysis_period_months * 30
        frequency == IF Len(rows) >= window THEN RInt(0) ELSE Rat(window - Len(rows), window)
        total == SumSeq(Prices(rows))
        value == IF total >= 1000 * Len(rows) THEN RInt(0)
                 ELSE Rat(1000 * Len(rows) - total, 1000 * Len(rows))
        trend == calculate_value_trend(rows)
    IN  RAdd(RAdd(RMul(Rat(2, 5), recency), RMul(Rat(3, 10), frequency)),
             RAdd(RMul(Rat(1, 5), value), RMul(Rat(1, 10), RSub(RInt(1), trend))))

\* C21: for a non-empty frame the churn risk score is the weighted sum of
\* recency, frequency, value and trend clamped to [0, 1]; it does not
\* decrease when the last order is one day older, and beyond 90 days the
\* recency term stays at its cap.
C21_ChurnFormula ==
    (analytics.call = "calculate_churn_risk_score" /\ analytics_data # <<>>) =>
        LET later == [config EXCEPT !.today_date = @ + 1]
            days == config.today_date - MaxSeq(Dates(analytics_data))
        IN  /\ analytics.result = Clamp01(WeightedRisk(analytics_data, config.today_date))
            /\ InUnit(analytics.result)
            /\ RLe(analytics.result, calculate_churn_risk_score(analytics_data, later))
            /\ (days >= 90) =>
                  analytics.result = calculate_churn_risk_score(analytics_data, later)

\* C21 without the frames whose monthly sums are all zero
C21_ChurnFormulaNonZero ==
    SumSeq(Prices(analytics_data)) > 0 => C21_ChurnFormula

\* C22: for a non-empty frame the lifetime value is the average order value
\* times max(2 * order count, 6); it is never below 6 times the average
\* order value and positive whenever the total spend is positive; for an
\* empty frame it is 0.
C22_LifetimeValue ==
    (analytics.call = "calculate_customer_lifetime_value") =>
        LET count == Len(analytics_data)
            total == SumSeq(Prices(analytics_data))
            orders == IF 2 * count >= 6 THEN 2 * count ELSE 6
        IN  IF count = 0 THEN analytics.result = RInt(0)
            ELSE /\ analytics.result = Rat(total * orders, count)
                 /\ RLe(Rat(6 * total, count), analytics.result)
                 /\ (total > 0) => RLt(RInt(0), analytics.result)

C22_Witness ==
    /\ analytics.call = "calculate_customer_lifetime_value"
    /\ Len(analytics_data) = 4
    /\ SumSeq(Prices(analytics_data)) = 3 * DefaultQuickWin
    /\ analytics.result = RInt(6 * DefaultQuickWin)

\* number of records of the frame posted in calendar month m
OrdersIn(m) ==
    Cardinality({i \in DOMAIN analytics_data : MonthOf(analytics_data[i].PostedDate.v) = m})

\* C23: a frame of fewer than 6 records gets no seasonal label; one of 6 or
\* more gets the season (Winter 12, 1, 2; Spring 3-5; Summer 6-8; Fall
\* 9-11) of the month with the most records, the lowest month number among
\* the months that tie, whatever the order of the rows.
C23_SeasonOfPeakMonth ==
    (analytics.call = "identify_seasonal_patterns") =>
        IF Len(analytics_data) < 6 THEN analytics.result = ""
        ELSE \E peak \in 1..12 :
                /\ \A m \in 1..12 : OrdersIn(m) <= OrdersIn(peak)
                /\ \A m \in 1..12 : OrdersIn(m) = OrdersIn(peak) => peak <= m
                /\ analytics.result =
                      (CASE peak \in {12, 1, 2} -> "Winter buyer"
                         [] peak \in {3, 4, 5} -> "Spring buyer"
                         [] peak \in {6, 7, 8} -> "Summer buyer"
                         [] peak \in {9, 10, 11} -> "Fall buyer")

C23_Witness ==
    /\ analytics.call = "identify_seasonal_patterns"
    /\ Len(analytics_data) = 6
    /\ OrdersIn(12) = 3
    /\ OrdersIn(3) = 3
    /\ MonthOf(analytics_data[1].PostedDate.v) = 12
    /\ analytics.result = "Spring buyer"

\* C24: a dormant customer has a seasonal label exactly when its order
\* count in the window is at least config.min_orders_for_pattern.
C24_ConfiguredMinimum ==
    HasIdentified =>
        \A i \in DOMAIN dormant_customers :
            (dormant_customers[i].seasonal_pattern # "")
                <=> (dormant_customers[i].order_count_6_months >= config.min_orders_for_pattern)

\* the customer of a clean record has no entry in the mapping built from
\* the planning table
Unmapped(row) ==
    \/ customer_col(planning_file) = 0
    \/ rep_col(planning_file) = 0
    \/ \A k \in DOMAIN planning_file.rows :
          planning_file.rows[k][customer_col(planning_file)] # row.Customer

\* C25: after reconciliation missing_customer_mappings is the number of
\* unmapped customers, counted over the clean records or over their
\* distinct customers, whether or not the record has an original
\* salesperson.
C25_UnmappedCustomers ==
    (pc \in {"reported", "identified", "summarised", "insights", "scored"}) =>
        LET records == {i \in DOMAIN sales_df_clean : Unmapped(sales_df_clean[i])}
            customers == {sales_df_clean[i].Customer : i \in records}
        IN  quality_report.missing_customer_mappings
                \in {Cardinality(records), Cardinality(customers)}

\* C26: validation leaves the caller's raw batch as it was loaded, so
\* validating the same batch object again gives the same report.
C26_InputUntouched ==
    (pc = "validated") =>
        /\ sales_df.rows = sales_file.rows
        /\ validate_sales_data(sales_df.rows).report = quality_report

\* the order of the stages of one call: validation, reconciliation, the
\* report update, selection and scoring, aggregation, synthesis, accuracy,
\* return; an exception leaves from anywhere
StageAfter ==
    [idle |-> "loaded", loaded |-> "validated", validated |-> "mapped",
     mapped |-> "reported", reported |-> "identified", identified |-> "summarised",
     summarised |-> "insights", insights |-> "scored", scored |-> "idle"]

\* two reports that differ at most in missing_customer_mappings
SameButMappingCount(a, b) ==
    [a EXCEPT !.missing_customer_mappings = 0] = [b EXCEPT !.missing_customer_mappings = 0]

ReportStep ==
    /\ (pc' # pc) => (pc' = StageAfter[pc] \/ pc' = "idle")
    /\ (quality_report' # quality_report) =>
          \/ pc = "loaded" /\ pc' = "validated" /\ quality_report = NoReport
          \/ /\ pc = "mapped" /\ pc' = "reported"
             /\ SameButMappingCount(quality_report, quality_report')
    /\ (accuracy_score' # accuracy_score) => (pc = "insights" /\ pc' = "scored")
    /\ (pc = "mapped" /\ pc' # pc) => pc' = "reported"

\* C27: the stages of a run execute in order; the quality report is created
\* by validation and written once more, between reconciliation and
\* selection, where only missing_customer_mappings changes; the accuracy
\* score is computed after that and the result carries the report as it
\* then is.
C27_ReportWrittenOnce ==
    /\ [][ReportStep]_vars
    /\ [](Finished => outcomes[Len(outcomes)].value.data_quality_report = quality_report)
    /\ []((pc = "scored") => accuracy_score = calculate_accuracy_score(quality_report))

C27_Witness ==
    /\ Finished
    /\ outcomes[1].value.data_quality_report.missing_customer_mappings = 1
    /\ outcomes[1].value.data_quality_report.total_records = 2
    /\ quality_report = outcomes[1].value.data_quality_report

\* ================================================================ main.py
\* DormantCustomerProcessor.process_files as one call: the steps of lines
\* 173-218 composed on the caller's files, config and pydantic release, with
\* now the value datetime.now() returns at line 211
process_files(sales, planning, cfg, release, now) ==
    LET df == load_sales_data(sales)
        v == validate_sales_data(df.rows)
        mapped == apply_customer_mappings(v.df_clean, planning)
        report == [v.report EXCEPT !.missing_customer_mappings =
                      CountIf(mapped, SalespersonIsNa)]
        args == identify_dormant_customers(mapped, cfg)
        customers == [i \in DOMAIN args |-> DormantCustomer(release, args[i])]
        summaries == generate_salesperson_summaries(customers, cfg)
        accuracy == calculate_accuracy_score(report)
    IN  IF df.columns # "header" THEN Raised
        ELSE IF \E i \in DOMAIN args : Rejects(release, args[i]) THEN Raised
        ELSE [ok |-> TRUE,
              value |->
                [summary |->
                    [total_dormant_customers |-> Len(customers),
                     total_value_at_risk |->
                        SumSeq([i \in DOMAIN customers |->
                                   customers[i].total_6_month_value]),
                     average_churn_risk |->
                        IF customers # <<>>
                        THEN NpMean([i \in DOMAIN customers |->
                                        customers[i].churn_risk_score])
                        ELSE RInt(0),
                     data_quality_score |-> accuracy],
                 salesperson_summaries |-> summaries,
                 dormant_customers |-> customers,
                 insights |-> generate_insights(customers, summaries),
                 data_quality_report |-> report,
                 processing_timestamp |-> now,
                 total_customers_analyzed |-> nunique(mapped),
                 data_accuracy_score |-> accuracy]]

\* the call composed above ends as the steps of process_files do
RunsAsComposed ==
    \A i \in DOMAIN outcomes :
        outcomes[i] =
            process_files(sales_file, planning_file, config, pydantic,
                          IF outcomes[i].ok
                          THEN outcomes[i].value.processing_timestamp ELSE 0)

\* ------------------------------------------------------------ job store
JobIds == 1..MaxJobs

\* names tempfile.mkdtemp can give a new directory
DirNames == 1..MaxJobs

\* sales reports a request can carry: one record of a customer of the
\* planning table, one of another customer, and a report without title lines
JobSalesA ==
    [title_lines |-> SkipRows, header |-> "header",
     rows |-> <<RawRow("A", "Old Rep", TextDate(400), TextPrice(500))>>]

JobSalesB ==
    [title_lines |-> SkipRows, header |-> "header",
     rows |-> <<RawRow("B", "Angela", TextDate(337), TextPrice(500))>>]

JobSalesUntitled == [title_lines |-> 0, header |-> "header", rows |-> <<>>]

JobPlanningFile ==
    [columns |-> <<"Customer", "Assigned Rep">>, rows |-> << <<"A", "Mike Allen">> >>]

\* the parameters of POST /upload-files, lines 67-74
JobRequest(sales, analysis_date, dormant_threshold) ==
    [sales_file |-> sales, planning_file |-> JobPlanningFile,
     analysis_date |-> analysis_date, dormant_threshold |-> dormant_threshold]

JobRequests ==
    {JobRequest(JobSalesA, TextDate(AsOf), DefaultDormantDays),
     JobRequest(JobSalesB, TextDate(AsOf), 200),
     JobRequest(JobSalesUntitled, TextDate(AsOf), DefaultDormantDays),
     JobRequest(JobSalesA, BadDate, DefaultDormantDays)}

\* lines 114-118; strptime raises ValueError on a malformed analysis_date
AnalyticsConfig(request) ==
    [DefaultConfig EXCEPT !.today_date = request.analysis_date.v,
                          !.dormant_days_threshold = request.dormant_threshold]

\* lines 91-100
Uploaded == [status |-> "uploaded", progress |-> 0, result_summary |-> <<>>, error |-> ""]

NoResult == [ok |-> FALSE]

\* mutant of mkdtemp: every upload is saved under one fixed directory
mkdtemp_shared == {1}

\* line 103: a directory that does not exist yet
mkdtemp == DirNames \ DOMAIN temp_dirs

\* dict without a key / os.path without a directory
Without(f, k) == [x \in DOMAIN f \ {k} |-> f[x]]

\* line 88: uuid.uuid4() returns an id no job has; ids are opaque, so the
\* least unused one stands for any of them
uuid4 == {j \in JobIds : j \notin DOMAIN processing_status
                         /\ \A i \in 1..(j - 1) : i \in DOMAIN processing_status}

\* upload_files, lines 87-134
UploadFiles(job_id) ==
    /\ job_id \in uuid4
    /\ \E request \in JobRequests, temp_dir \in mkdtemp :
          /\ requests' = (job_id :> request) @@ requests
          /\ processing_status' = (job_id :> Uploaded) @@ processing_status
          /\ temp_dirs' =
                (temp_dir :> [sales_path |-> request.sales_file,
                              planning_path |-> request.planning_file]) @@ temp_dirs
          /\ IF request.analysis_date = BadDate
             THEN UNCHANGED tasks
             ELSE tasks' = (job_id :> [pc |-> "scheduled",
                                       temp_dir |-> temp_dir,
                                       config |-> AnalyticsConfig(request),
                                       result |-> NoResult]) @@ tasks
    /\ UNCHANGED <<sales_file, planning_file, config, run_limit, pydantic, clock, pc,
                   sales_df, sales_df_clean, quality_report, sales_df_mapped,
                   dormant_customers, salesperson_summaries, insights,
                   accuracy_score, outcomes, analytics_data, analytics,
                   processing_results>>

At(job_id, where) == job_id \in DOMAIN tasks /\ tasks[job_id].pc = where

\* what a step of a background task leaves alone besides the job store
UnchangedByTask ==
    UNCHANGED <<sales_file, planning_file, config, run_limit, pydantic, clock, pc,
                sales_df, sales_df_clean, quality_report, sales_df_mapped,
                dormant_customers, salesperson_summaries, insights,
                accuracy_score, outcomes, analytics_data, analytics, requests>>

\* processing_status[job_id].update({...})
StatusUpdate(job_id, status, progress) ==
    processing_status' =
        [processing_status EXCEPT ![job_id].status = status,
                                  ![job_id].progress = progress]

\* process_files_background, lines 146-150
MarkProcessing(job_id) ==
    /\ At(job_id, "scheduled")
    /\ StatusUpdate(job_id, "processing", 10)
    /\ tasks' = [tasks EXCEPT ![job_id].pc = "processing"]
    /\ UNCHANGED <<processing_results, temp_dirs>>
    /\ UnchangedByTask

\* lines 153-159
InitProcessor(job_id) ==
    /\ At(job_id, "processing")
    /\ StatusUpdate(job_id, "processing", 30)
    /\ tasks' = [tasks EXCEPT ![job_id].pc = "initialized"]
    /\ UNCHANGED <<processing_results, temp_dirs>>
    /\ UnchangedByTask

\* line 162: the processor reads the two paths under the task's temp_dir; a
\* path that is not there raises FileNotFoundError
ProcessFiles(job_id) ==
    /\ At(job_id, "initialized")
    /\ LET task == tasks[job_id]
           result ==
              IF task.temp_dir \in DOMAIN temp_dirs
              THEN process_files(temp_dirs[task.temp_dir].sales_path,
                                 temp_dirs[task.temp_dir].planning_path,
                                 task.config, pydantic, clock)
              ELSE Raised
       IN  tasks' = [tasks EXCEPT ![job_id].result = result,
                                  ![job_id].pc = IF result.ok THEN "processed"
                                                 ELSE "except"]
    /\ UNCHANGED <<processing_status, processing_results, temp_dirs>>
    /\ UnchangedByTask

\* lines 165-168
MarkGenerating(job_id) ==
    /\ At(job_id, "processed")
    /\ StatusUpdate(job_id, "processing", 70)
    /\ tasks' = [tasks EXCEPT ![job_id].pc = "generating"]
    /\ UNCHANGED <<processing_results, temp_dirs>>
    /\ UnchangedByTask

\* line 171
StoreResult(job_id) ==
    /\ At(job_id, "generating")
    /\ processing_results' =
          (job_id :> tasks[job_id].result.value) @@ processing_results
    /\ tasks' = [tasks EXCEPT ![job_id].pc = "stored"]
    /\ UNCHANGED <<processing_status, temp_dirs>>
    /\ UnchangedByTask

\* lines 178-182
ResultSummary(result) ==
    [dormant_customers |-> Len(result.dormant_customers),
     total_value_at_risk |-> result.summary.total_value_at_risk,
     data_accuracy |-> result.data_accuracy_score]

\* mutant of Completed: the update leaves out the status
Completed_progress_only(entry, result) ==
    [entry EXCEPT !.progress = 100, !.result_summary = ResultSummary(result)]

\* the update of lines 174-183
Completed(entry, result) ==
    [entry EXCEPT !.status = "completed",
                  !.progress = 100,
                  !.result_summary = ResultSummary(result)]

\* lines 174-183
MarkCompleted(job_id) ==
    /\ At(job_id, "stored")
    /\ processing_status' =
          [processing_status EXCEPT
              ![job_id] = Completed(processing_status[job_id],
                                    tasks[job_id].result.value)]
    /\ tasks' = [tasks EXCEPT ![job_id].pc = "finally"]
    /\ UNCHANGED <<processing_results, temp_dirs>>
    /\ UnchangedByTask

\* mutant of Failed: the progress of the failed step is left standing
Failed_keeps_progress(entry) ==
    [entry EXCEPT !.status = "failed", !.error = "str(e)"]

\* the update of lines 189-194
Failed(entry) ==
    [entry EXCEPT !.status = "failed", !.progress = 0, !.error = "str(e)"]

\* except Exception, lines 187-194
MarkFailed(job_id) ==
    /\ At(job_id, "except")
    /\ processing_status' =
          [processing_status EXCEPT ![job_id] = Failed(processing_status[job_id])]
    /\ tasks' = [tasks EXCEPT ![job_id].pc = "finally"]
    /\ UNCHANGED <<processing_results, temp_dirs>>
    /\ UnchangedByTask

\* finally, lines 196-201: shutil.rmtree(temp_dir), errors passed over
RemoveTempDir(job_id) ==
    /\ At(job_id, "finally")
    /\ temp_dirs' = Without(temp_dirs, tasks[job_id].temp_dir)
    /\ tasks' = [tasks EXCEPT ![job_id].pc = "done"]
    /\ UNCHANGED <<processing_status, processing_results>>
    /\ UnchangedByTask

\* the steps of process_files_background for one job
BackgroundStep(job_id) ==
    \/ MarkProcessing(job_id)
    \/ InitProcessor(job_id)
    \/ ProcessFiles(job_id)
    \/ MarkGenerating(job_id)
    \/ StoreResult(job_id)
    \/ MarkCompleted(job_id)
    \/ MarkFailed(job_id)
    \/ RemoveTempDir(job_id)

NextJobs ==
    \E job_id \in JobIds :
        \/ UploadFiles(job_id)
        \/ BackgroundStep(job_id)

InitJobs ==
    /\ JobStore0
    /\ sales_file = [title_lines |-> SkipRows, header |-> "header", rows |-> <<>>]
    /\ planning_file = [columns |-> <<>>, rows |-> <<>>]
    /\ config = DefaultConfig
    /\ run_limit = 0
    /\ pydantic \in PydanticReleases
    /\ clock = 0
    /\ pc = "idle"
    /\ outcomes = <<>>
    /\ Locals0
    /\ Direct0

\* requests served and background tasks run in any order
SpecJobs == InitJobs /\ [][NextJobs]_vars

\* the steps of a task around the call of process_files
StatusStep(job_id) ==
    \/ MarkProcessing(job_id)
    \/ InitProcessor(job_id)
    \/ MarkGenerating(job_id)
    \/ StoreResult(job_id)
    \/ MarkCompleted(job_id)
    \/ MarkFailed(job_id)
    \/ RemoveTempDir(job_id)

\* the event loop runs every scheduled background task to its end, and the
\* call of process_files returns or raises: weak fairness of each task's
\* steps, that of ProcessFiles with its enabling condition written out
TaskFairness(job_id) ==
    /\ WF_vars(StatusStep(job_id))
    /\ ([]<>(~At(job_id, "initialized")) \/ []<><<ProcessFiles(job_id)>>_vars)

SpecJobsFair == SpecJobs /\ \A job_id \in JobIds : TaskFairness(job_id)

\* ---------------------------------------------------------------- C28
\* what process_files returns for a job's own request when nothing else runs
Alone(job_id) ==
    process_files(requests[job_id].sales_file, requests[job_id].planning_file,
                  AnalyticsConfig(requests[job_id]), pydantic, 0)

\* the status entry of a job that runs alone, at each position of its task
StatusAlone(job_id) ==
    LET at == tasks[job_id].pc
    IN  IF at = "scheduled" THEN Uploaded
        ELSE IF at = "processing" THEN [Uploaded EXCEPT !.status = "processing", !.progress = 10]
        ELSE IF at \in {"initialized", "processed", "except"}
             THEN [Uploaded EXCEPT !.status = "processing", !.progress = 30]
        ELSE IF at \in {"generating", "stored"}
             THEN [Uploaded EXCEPT !.status = "processing", !.progress = 70]
        ELSE IF Alone(job_id).ok
             THEN [status |-> "completed", progress |-> 100,
                   result_summary |-> ResultSummary(Alone(job_id).value), error |-> ""]
        ELSE [status |-> "failed", progress |-> 0, result_summary |-> <<>>,
              error |-> "str(e)"]

\* the entry of a dict for a key, as a set with at most one element
Entry(f, k) == {f[x] : x \in {k} \cap DOMAIN f}

\* what belongs to a job: its request, status entry, result entry, task
\* arguments (config included) and, until its task has removed them, its
\* uploaded files
Owned(job_id) ==
    <<Entry(requests, job_id), Entry(processing_status, job_id),
      Entry(processing_results, job_id), Entry(tasks, job_id),
      UNION {Entry(temp_dirs, t.temp_dir) :
                t \in {u \in Entry(tasks, job_id) : u.pc # "done"}}>>

AsIfAlone ==
    \A job_id \in DOMAIN tasks :
        /\ processing_status[job_id] = StatusAlone(job_id)
        /\ tasks[job_id].pc \in {"processed", "generating", "stored", "except",
                                 "finally", "done"}
              => SameButTimestamp(tasks[job_id].result, Alone(job_id))
        /\ job_id \in DOMAIN processing_results
              => SameButTimestamp([ok |-> TRUE, value |-> processing_results[job_id]],
                                  Alone(job_id))
        /\ job_id \in DOMAIN processing_results
              <=> (tasks[job_id].pc \in {"stored", "finally", "done"}
                   /\ Alone(job_id).ok)

OneJobAStep ==
    \A j, k \in JobIds :
        j # k => Owned(j)' = Owned(j) \/ Owned(k)' = Owned(k)

\* C28: concurrent runs do not interfere: under every interleaving of the
\* upload handler and the steps of the background tasks, each job's task
\* result, stored result and status entry are what the job's own files and
\* config give when it runs alone, and no step changes what belongs to two
\* jobs (request, status entry, result entry, task arguments, uploaded files).
C28_NoInterference == []AsIfAlone /\ [][OneJobAStep]_vars

\* two jobs with different batches and configs are both between storing
\* their result and marking completion
C28_Witness ==
    /\ At(1, "stored") /\ At(2, "stored")
    /\ requests[1] # requests[2]
    /\ processing_results[1] # processing_results[2]
    /\ AsIfAlone

\* ---------------------------------------------------------------- C29
\* the statuses a status can be followed by
StatusAfter(status) ==
    IF status = "uploaded" THEN {"uploaded", "processing"}
    ELSE IF status = "processing" THEN {"processing", "completed", "failed"}
    ELSE {status}

IsFinal(entry) == entry.status \in {"completed", "failed"}

StatusMoves ==
    \A job_id \in DOMAIN processing_status :
        /\ job_id \in DOMAIN processing_status'
        /\ processing_status'[job_id].status
              \in StatusAfter(processing_status[job_id].status)
        /\ IsFinal(processing_status[job_id])
              => processing_status'[job_id] = processing_status[job_id]

ProgressOfStatus ==
    \A job_id \in DOMAIN processing_status :
        /\ processing_status[job_id].status
              \in {"uploaded", "processing", "completed", "failed"}
        /\ processing_status[job_id].progress = 100
              <=> processing_status[job_id].status = "completed"
        /\ processing_status[job_id].status = "failed"
              => processing_status[job_id].progress = 0

TaskStarted(job_id) ==
    job_id \in DOMAIN tasks /\ tasks[job_id].pc # "scheduled"

\* the task has run to its end
TaskEnded(job_id) ==
    At(job_id, "done") /\ IsFinal(processing_status[job_id])

\* a task's directory is there until the task ends and gone when it ends
\* (a later upload may be given the same name for a new directory)
RemovedAtEnd ==
    \A job_id \in DOMAIN tasks :
        /\ ~At(job_id, "done") => tasks[job_id].temp_dir \in DOMAIN temp_dirs
        /\ ~At(job_id, "done") /\ At(job_id, "done")'
              => tasks[job_id].temp_dir \notin DOMAIN temp_dirs'

get_processing_status(job_id) ==
    IF job_id \notin DOMAIN processing_status THEN [status_code |-> 404]
    ELSE [status_code |-> 200, body |-> processing_status[job_id]]

\* GET /results/{job_id}, lines 211-229; lines 234, 259 and 292 guard the
\* report and analytics endpoints with the same test
get_results(job_id) ==
    IF job_id \notin DOMAIN processing_results THEN [status_code |-> 404]
    ELSE [status_code |-> 200, body |-> processing_results[job_id]]

StoredNotYetMarked(job_id) ==
    /\ At(job_id, "stored")
    /\ processing_status[job_id].status = "processing"
    /\ processing_status[job_id].progress = 70

====
